---- MODULE Spec2Model ----
(***************************************************************************)
(* The contact-form relay function of cdk/lambda/contact-form/index.js:    *)
(* exports.handler, getRecaptchaApiKey, verifyRecaptcha and sendEmail,     *)
(* with the module-level credential cache cachedApiKey.                    *)
(*                                                                         *)
(* One action is one run of JavaScript between two suspension points of an *)
(* invocation (an await on the secret store, on the verification request   *)
(* or on the email service).  Scores and the threshold are in tenths       *)
(* (5 stands for 0.5).                                                     *)
(***************************************************************************)
EXTENDS Integers, Sequences, FiniteSets, TLC

\* Invocation slots of one instance, and the cap of the fetch counter.
NumInv == 2
MaxFetches == 2

Inv == 1..NumInv

\* parseFloat(process.env.RECAPTCHA_SCORE_THRESHOLD || '0.5'), in tenths.
RECAPTCHA_SCORE_THRESHOLD == 5

\* The action name the handler passes to verifyRecaptcha.
ExpectedAction == "contact_submit"

(***************************************************************************)
(* JavaScript values.                                                      *)
(***************************************************************************)
Null == "<null>"
Undefined == "<undefined>"

\* if (cachedApiKey): null, undefined and the empty string are falsy.
Truthy(v) == v \notin {Null, Undefined, ""}

\* An object with no own property.
EmptyObj == [k \in {} |-> ""]

\* obj.k: the property's value, undefined when the object has none.
Get(obj, k) == IF k \in DOMAIN obj THEN obj[k] ELSE Undefined

\* The handler's local "body": a decoded object, or null.
ObjVal(o) == [t |-> "object", o |-> o]
NullVal == [t |-> "null", o |-> EmptyObj]

(***************************************************************************)
(* Submissions, and JSON text as a sequence of tokens.                     *)
(***************************************************************************)
FieldOrder == <<"recaptchaToken", "name", "email", "subject", "message">>

Submissions ==
    { [recaptchaToken |-> "tokA", name |-> "Ann", email |-> "ann@a.test",
       subject |-> "Hi", message |-> "Hello"],
      [recaptchaToken |-> "tokB", name |-> "Bob", email |-> "bob@b.test",
       subject |-> "Re", message |-> "Bye"],
      [recaptchaToken |-> "tokA", name |-> "Ann"] }

RECURSIVE StringifyFrom(_, _)
StringifyFrom(obj, n) ==
    IF n > Len(FieldOrder) THEN <<>>
    ELSE (IF FieldOrder[n] \in DOMAIN obj
             THEN <<FieldOrder[n], obj[FieldOrder[n]]>>
             ELSE <<>>) \o StringifyFrom(obj, n + 1)

\* JSON.stringify of a submission object: "{", key, value, ..., "}".
Stringify(obj) == <<"{">> \o StringifyFrom(obj, 1) \o <<"}">>

\* Texts JSON.parse rejects: the empty string and a truncated object.
BadTexts == { <<>>, <<"{", "name">> }

\* The JSON text of null.
NullText == <<"null">>

\* JSON.parse(text) returns (rather than throws a SyntaxError).
ParseOk(text) ==
    \/ text = NullText
    \/ /\ Len(text) >= 2
       /\ text[1] = "{"
       /\ text[Len(text)] = "}"
       /\ (Len(text) - 2) % 2 = 0

\* The value JSON.parse(text) returns; of a repeated key the last entry wins.
ParseValue(text) ==
    IF text = NullText THEN NullVal
    ELSE LET n == (Len(text) - 2) \div 2
             keys == { text[2 * j] : j \in 1..n }
             last(k) == CHOOSE j \in 1..n :
                           /\ text[2 * j] = k
                           /\ \A m \in 1..n : text[2 * m] = k => m <= j
         IN  ObjVal([k \in keys |-> text[2 * last(k) + 1]])

(***************************************************************************)
(* Invocation envelopes.                                                   *)
(***************************************************************************)
NoBody == [t |-> "undefined", s |-> <<>>, o |-> EmptyObj]

\* The submission is the envelope itself.
DirectEnvelope(sub) == [t |-> "object", top |-> sub, body |-> NoBody]

\* The envelope's body field is a string (API Gateway, Function URL).
StringEnvelope(text) ==
    [t |-> "object", top |-> EmptyObj,
     body |-> [t |-> "string", s |-> text, o |-> EmptyObj]]

\* The envelope's body field is an object.
ObjectEnvelope(sub) ==
    [t |-> "object", top |-> EmptyObj,
     body |-> [t |-> "object", s |-> <<>>, o |-> sub]]

\* The payload null.
NullEnvelope == [t |-> "null", top |-> EmptyObj, body |-> NoBody]

Events ==
    { DirectEnvelope(s) : s \in Submissions }
    \cup { StringEnvelope(Stringify(s)) : s \in Submissions }
    \cup { ObjectEnvelope(s) : s \in Submissions }
    \cup { StringEnvelope(t) : t \in BadTexts \cup {NullText} }
    \cup { NullEnvelope }

\* The handler without its decoding of a string body.
Normalize_NoDecode(event) ==
    IF event.t = "null" THEN [threw |-> TRUE, v |-> NullVal]
    ELSE IF event.body.t = "object"
         THEN [threw |-> FALSE, v |-> ObjVal(event.body.o)]
    ELSE [threw |-> FALSE, v |-> ObjVal(event.top)]

\* Lines 36-41: the local "body", or an exception thrown before the first try.
Normalize(event) ==
    IF event.t = "null" THEN [threw |-> TRUE, v |-> NullVal]
    ELSE IF event.body.t = "string"
         THEN IF ParseOk(event.body.s)
                 THEN [threw |-> FALSE, v |-> ParseValue(event.body.s)]
                 ELSE [threw |-> TRUE, v |-> NullVal]
    ELSE IF event.body.t = "object"
         THEN [threw |-> FALSE, v |-> ObjVal(event.body.o)]
    ELSE [threw |-> FALSE, v |-> ObjVal(event.top)]

(***************************************************************************)
(* The verification service's answer.                                      *)
(***************************************************************************)
\* riskAnalysis.score values, in tenths.
ScoreValues == {3, 5, 9}

\* A parsed response body: an optional error object, optional
\* tokenProperties.valid and .action, an optional riskAnalysis.score.
Responses ==
    { [error |-> e, valid |-> v, action |-> a, hasScore |-> sc[1],
       score |-> sc[2]] :
        e \in BOOLEAN, v \in {"true", "false", "absent"},
        a \in {ExpectedAction, "other_action", "absent"},
        sc \in ({FALSE} \X {0}) \cup ({TRUE} \X ScoreValues) }

NoResponseObj ==
    [error |-> FALSE, valid |-> "absent", action |-> "absent",
     hasScore |-> FALSE, score |-> 0]

\* What the response stream delivered by its 'end' event: text that
\* JSON.parse accepts (with the value it yields) or rejects.
VerificationBodies ==
    { [wellFormed |-> TRUE, json |-> r] : r \in Responses }
    \cup { [wellFormed |-> FALSE, json |-> NoResponseObj] }

\* The default of an absent score taken as the best score, 1.0.
ScoreOf_DefaultOne(r) == IF r.hasScore THEN r.score ELSE 10

\* Line 132: response.riskAnalysis?.score || 0.
ScoreOf(r) == IF r.hasScore THEN r.score ELSE 0

\* hasScore: the result object has a score property.
NoResult ==
    [set |-> FALSE, success |-> FALSE, reason |-> "", hasScore |-> FALSE,
     score |-> 0]

\* verifyRecaptcha without its comparison of the action.
VerifyResult_NoActionCheck(r, expectedAction) ==
    IF r.error
       THEN [set |-> TRUE, success |-> FALSE, reason |-> "error.message",
             hasScore |-> FALSE, score |-> 0]
    ELSE IF r.valid # "true"
       THEN [set |-> TRUE, success |-> FALSE, reason |-> "Invalid token",
             hasScore |-> TRUE, score |-> 0]
    ELSE [set |-> TRUE, success |-> TRUE, reason |-> "", hasScore |-> TRUE,
          score |-> ScoreOf(r)]

\* verifyRecaptcha with the score left out of the 'Action mismatch' result.
VerifyResult_MismatchDropsScore(r, expectedAction) ==
    IF r.error
       THEN [set |-> TRUE, success |-> FALSE, reason |-> "error.message",
             hasScore |-> FALSE, score |-> 0]
    ELSE IF r.valid # "true"
       THEN [set |-> TRUE, success |-> FALSE, reason |-> "Invalid token",
             hasScore |-> TRUE, score |-> 0]
    ELSE IF r.action # expectedAction
       THEN [set |-> TRUE, success |-> FALSE, reason |-> "Action mismatch",
             hasScore |-> TRUE, score |-> 0]
    ELSE [set |-> TRUE, success |-> TRUE, reason |-> "", hasScore |-> TRUE,
          score |-> ScoreOf(r)]

\* Lines 125-140: the value verifyRecaptcha's promise resolves with.
VerifyResult(r, expectedAction) ==
    IF r.error
       THEN [set |-> TRUE, success |-> FALSE, reason |-> "error.message",
             hasScore |-> FALSE, score |-> 0]
    ELSE IF r.valid # "true"
       THEN [set |-> TRUE, success |-> FALSE, reason |-> "Invalid token",
             hasScore |-> TRUE, score |-> 0]
    ELSE IF r.action # expectedAction
       THEN [set |-> TRUE, success |-> FALSE, reason |-> "Action mismatch",
             hasScore |-> TRUE, score |-> ScoreOf(r)]
    ELSE [set |-> TRUE, success |-> TRUE, reason |-> "", hasScore |-> TRUE,
          score |-> ScoreOf(r)]

\* The score gate with <= for <.
ScoreTooLow_Inclusive(score) == score <= RECAPTCHA_SCORE_THRESHOLD

\* Line 57: recaptchaResult.score < RECAPTCHA_SCORE_THRESHOLD.
ScoreTooLow(score) == score < RECAPTCHA_SCORE_THRESHOLD

(***************************************************************************)
(* The email body and the handler's responses.                             *)
(***************************************************************************)
\* String concatenation turns undefined into the text "undefined".
Str(v) == IF v = Undefined THEN "undefined" ELSE v

\* Line 161: the Data of the message body, piece by piece.
EmailData(o) ==
    << "From: ", Str(Get(o, "name")),
       "\n\nEmail: ", Str(Get(o, "email")),
       "\n\nSubject: ", Str(Get(o, "subject")),
       "\n\nMessage: ", Str(Get(o, "message")) >>

NoResponse ==
    [statusCode |-> 0, contentType |-> "", result |-> "", reason |-> ""]

\* Lines 50-54.
VerificationFailed ==
    [statusCode |-> 400, contentType |-> "application/json",
     result |-> "Failed", reason |-> "reCAPTCHA verification failed"]

\* Lines 59-63.
SubmissionBlocked ==
    [statusCode |-> 400, contentType |-> "application/json",
     result |-> "Failed", reason |-> "Submission blocked"]

\* Lines 70-74.
RecaptchaServiceError ==
    [statusCode |-> 500, contentType |-> "application/json",
     result |-> "Failed", reason |-> "reCAPTCHA service error"]

\* Lines 81-85: the body has no reason property.
Success ==
    [statusCode |-> 200, contentType |-> "application/json",
     result |-> "Success", reason |-> Undefined]

\* Lines 88-92.
EmailServiceError ==
    [statusCode |-> 500, contentType |-> "application/json",
     result |-> "Failed", reason |-> "Email service error"]

(***************************************************************************)
(* State.                                                                  *)
(***************************************************************************)
VARIABLES
    cachedApiKey,     \* line 20: the module-level credential cache
    fetchCount,       \* secret-store calls that succeeded on this instance
    pc,               \* where each invocation is
    event,            \* the invocation's payload
    body,             \* the handler's local "body"
    apiKey,           \* the handler's local "apiKey"
    recaptchaResult,  \* the handler's local "recaptchaResult"
    response,         \* the value the handler returned
    calls             \* the outbound calls the invocation made, and their outcomes

vars == <<cachedApiKey, fetchCount, pc, event, body, apiKey, recaptchaResult,
          response, calls>>

\* The SecretString of a successful GetSecretValue: absent for a binary secret.
SecretStrings == {"AIzaKey1", "AIzaKey2", Undefined}

NoCalls ==
    [secret |-> 0, verify |-> 0, email |-> 0,
     secretOutcome |-> "none",
     token |-> Undefined, key |-> Undefined, expectedAction |-> Undefined,
     verifyOutcome |-> "none", verifyResponse |-> NoResponseObj,
     emailData |-> <<>>, emailOutcome |-> "none"]

Init ==
    /\ cachedApiKey = Null
    /\ fetchCount = 0
    /\ pc = [i \in Inv |-> "idle"]
    /\ event = [i \in Inv |-> NullEnvelope]
    /\ body = [i \in Inv |-> NullVal]
    /\ apiKey = [i \in Inv |-> Undefined]
    /\ recaptchaResult = [i \in Inv |-> NoResult]
    /\ response = [i \in Inv |-> NoResponse]
    /\ calls = [i \in Inv |-> NoCalls]

(***************************************************************************)
(* exports.handler, one action per run between suspension points.          *)
(***************************************************************************)
\* The handler with a getRecaptchaApiKey that never looks at the cache.
Start_AlwaysFetches(i, e) ==
    /\ pc[i] = "idle"
    /\ event' = [event EXCEPT ![i] = e]
    /\ UNCHANGED <<cachedApiKey, fetchCount, recaptchaResult, response, apiKey>>
    /\ LET n == Normalize(e) IN
       IF n.threw
          THEN /\ pc' = [pc EXCEPT ![i] = "thrown"]
               /\ UNCHANGED <<body, calls>>
          ELSE /\ pc' = [pc EXCEPT ![i] = "awaitSecret"]
               /\ body' = [body EXCEPT ![i] = n.v]
               /\ calls' = [calls EXCEPT ![i].secret = @ + 1]

\* Lines 32-45 and 22-27: the payload is normalised (an exception here leaves
\* the handler), then getRecaptchaApiKey returns the cached key or sends
\* GetSecretValue.
Start(i, e) ==
    /\ pc[i] = "idle"
    /\ event' = [event EXCEPT ![i] = e]
    /\ UNCHANGED <<cachedApiKey, fetchCount, recaptchaResult, response>>
    /\ LET n == Normalize(e) IN
       IF n.threw
          THEN /\ pc' = [pc EXCEPT ![i] = "thrown"]
               /\ UNCHANGED <<body, apiKey, calls>>
       ELSE IF Truthy(cachedApiKey)
          THEN /\ pc' = [pc EXCEPT ![i] = "awaitKey"]
               /\ body' = [body EXCEPT ![i] = n.v]
               /\ apiKey' = [apiKey EXCEPT ![i] = cachedApiKey]
               /\ UNCHANGED calls
       ELSE /\ pc' = [pc EXCEPT ![i] = "awaitSecret"]
            /\ body' = [body EXCEPT ![i] = n.v]
            /\ calls' = [calls EXCEPT ![i].secret = @ + 1]
            /\ UNCHANGED apiKey

\* Lines 27-29: GetSecretValue succeeded; the key is cached and returned.
SecretResolves(i, secretString) ==
    /\ pc[i] = "awaitSecret"
    /\ cachedApiKey' = secretString
    /\ fetchCount' = IF fetchCount < MaxFetches THEN fetchCount + 1 ELSE fetchCount
    /\ apiKey' = [apiKey EXCEPT ![i] = secretString]
    /\ calls' = [calls EXCEPT ![i].secretOutcome = "ok"]
    /\ pc' = [pc EXCEPT ![i] = "awaitKey"]
    /\ UNCHANGED <<event, body, recaptchaResult, response>>

\* A failed GetSecretValue swallowed: the handler goes on without a key.
SecretRejects_Swallowed(i) ==
    /\ pc[i] = "awaitSecret"
    /\ calls' = [calls EXCEPT ![i].secretOutcome = "fail"]
    /\ pc' = [pc EXCEPT ![i] = "awaitKey"]
    /\ UNCHANGED <<cachedApiKey, fetchCount, event, body, apiKey, recaptchaResult,
                   response>>

\* Lines 27 and 68-74: GetSecretValue failed; the handler's catch answers.
SecretRejects(i) ==
    /\ pc[i] = "awaitSecret"
    /\ calls' = [calls EXCEPT ![i].secretOutcome = "fail"]
    /\ response' = [response EXCEPT ![i] = RecaptchaServiceError]
    /\ pc' = [pc EXCEPT ![i] = "done"]
    /\ UNCHANGED <<cachedApiKey, fetchCount, event, body, apiKey, recaptchaResult>>

\* Lines 46 and 96-149: body.recaptchaToken is read (a TypeError on null, which
\* the catch answers) and the verification request is sent.
CallVerify(i) ==
    /\ pc[i] = "awaitKey"
    /\ IF body[i].t = "null"
          THEN /\ response' = [response EXCEPT ![i] = RecaptchaServiceError]
               /\ pc' = [pc EXCEPT ![i] = "done"]
               /\ UNCHANGED calls
          ELSE /\ calls' = [calls EXCEPT ![i].verify = @ + 1,
                                         ![i].token = Get(body[i].o, "recaptchaToken"),
                                         ![i].expectedAction = ExpectedAction,
                                         ![i].key = apiKey[i]]
               /\ pc' = [pc EXCEPT ![i] = "awaitVerify"]
               /\ UNCHANGED response
    /\ UNCHANGED <<cachedApiKey, fetchCount, event, body, apiKey, recaptchaResult>>

\* A failed verification request sent again.
VerifyRequestError_Retries(i) ==
    /\ pc[i] = "awaitVerify"
    /\ calls[i].verify < 3
    /\ calls' = [calls EXCEPT ![i].verifyOutcome = "neterr", ![i].verify = @ + 1]
    /\ UNCHANGED <<cachedApiKey, fetchCount, pc, event, body, apiKey,
                   recaptchaResult, response>>

\* Lines 147 and 68-74: the request emitted 'error'; the promise rejects.
VerifyRequestError(i) ==
    /\ pc[i] = "awaitVerify"
    /\ calls' = [calls EXCEPT ![i].verifyOutcome = "neterr"]
    /\ response' = [response EXCEPT ![i] = RecaptchaServiceError]
    /\ pc' = [pc EXCEPT ![i] = "done"]
    /\ UNCHANGED <<cachedApiKey, fetchCount, event, body, apiKey, recaptchaResult>>

\* Lines 117-119: the response stream closed before its 'end' event.  Only
\* 'data' and 'end' have listeners, so the promise is never settled.
VerifyResponseAborts(i) ==
    /\ pc[i] = "awaitVerify"
    /\ calls' = [calls EXCEPT ![i].verifyOutcome = "aborted"]
    /\ pc' = [pc EXCEPT ![i] = "stalled"]
    /\ UNCHANGED <<cachedApiKey, fetchCount, event, body, apiKey, recaptchaResult,
                   response>>

\* Lines 120-143, 48-66 and 79: the stream ended; the text is parsed, the
\* result computed, and the handler answers 400 or sends the email.
VerifyResponseEnds(i, data) ==
    /\ pc[i] = "awaitVerify"
    /\ UNCHANGED <<cachedApiKey, fetchCount, event, body, apiKey>>
    /\ IF ~data.wellFormed
          THEN /\ calls' = [calls EXCEPT ![i].verifyOutcome = "badjson"]
               /\ response' = [response EXCEPT ![i] = RecaptchaServiceError]
               /\ pc' = [pc EXCEPT ![i] = "done"]
               /\ UNCHANGED recaptchaResult
          ELSE LET res == VerifyResult(data.json, calls[i].expectedAction)
                   got == [calls[i] EXCEPT !.verifyOutcome = "json",
                                           !.verifyResponse = data.json]
               IN  /\ recaptchaResult' = [recaptchaResult EXCEPT ![i] = res]
                   /\ IF ~res.success
                         THEN /\ response' = [response EXCEPT ![i] = VerificationFailed]
                              /\ pc' = [pc EXCEPT ![i] = "done"]
                              /\ calls' = [calls EXCEPT ![i] = got]
                      ELSE IF ScoreTooLow(res.score)
                         THEN /\ response' = [response EXCEPT ![i] = SubmissionBlocked]
                              /\ pc' = [pc EXCEPT ![i] = "done"]
                              /\ calls' = [calls EXCEPT ![i] = got]
                      ELSE /\ calls' = [calls EXCEPT ![i] =
                                          [got EXCEPT !.email = @ + 1,
                                                      !.emailData = EmailData(body[i].o)]]
                           /\ pc' = [pc EXCEPT ![i] = "awaitEmail"]
                           /\ UNCHANGED response

\* Lines 79-85: SendEmail succeeded.
EmailResolves(i) ==
    /\ pc[i] = "awaitEmail"
    /\ calls' = [calls EXCEPT ![i].emailOutcome = "ok"]
    /\ response' = [response EXCEPT ![i] = Success]
    /\ pc' = [pc EXCEPT ![i] = "done"]
    /\ UNCHANGED <<cachedApiKey, fetchCount, event, body, apiKey, recaptchaResult>>

\* A failed SendEmail sent again.
EmailRejects_Retries(i) ==
    /\ pc[i] = "awaitEmail"
    /\ calls[i].email < 3
    /\ calls' = [calls EXCEPT ![i].emailOutcome = "fail", ![i].email = @ + 1]
    /\ UNCHANGED <<cachedApiKey, fetchCount, pc, event, body, apiKey,
                   recaptchaResult, response>>

\* Lines 79 and 86-92: SendEmail failed.
EmailRejects(i) ==
    /\ pc[i] = "awaitEmail"
    /\ calls' = [calls EXCEPT ![i].emailOutcome = "fail"]
    /\ response' = [response EXCEPT ![i] = EmailServiceError]
    /\ pc' = [pc EXCEPT ![i] = "done"]
    /\ UNCHANGED <<cachedApiKey, fetchCount, event, body, apiKey, recaptchaResult>>

\* The invocation is over (a response or an exception went to the runtime):
\* its locals are gone; cachedApiKey stays.
Release(i) ==
    /\ pc[i] \in {"done", "thrown"}
    /\ pc' = [pc EXCEPT ![i] = "idle"]
    /\ event' = [event EXCEPT ![i] = NullEnvelope]
    /\ body' = [body EXCEPT ![i] = NullVal]
    /\ apiKey' = [apiKey EXCEPT ![i] = Undefined]
    /\ recaptchaResult' = [recaptchaResult EXCEPT ![i] = NoResult]
    /\ response' = [response EXCEPT ![i] = NoResponse]
    /\ calls' = [calls EXCEPT ![i] = NoCalls]
    /\ UNCHANGED <<cachedApiKey, fetchCount>>

(***************************************************************************)
(* Invocations that do not overlap, on one warm instance.                  *)
(***************************************************************************)
Invoke(i) ==
    /\ \A j \in Inv : pc[j] = "idle"
    /\ \E e \in Events : Start(i, e)

SecretAnswers(i) ==
    \/ \E s \in SecretStrings : SecretResolves(i, s)
    \/ SecretRejects(i)

VerifyAnswers(i) ==
    \/ VerifyRequestError(i)
    \/ VerifyResponseAborts(i)
    \/ \E d \in VerificationBodies : VerifyResponseEnds(i, d)

EmailAnswers(i) ==
    \/ EmailResolves(i)
    \/ EmailRejects(i)

Step(i) ==
    \/ SecretAnswers(i)
    \/ CallVerify(i)
    \/ VerifyAnswers(i)
    \/ EmailAnswers(i)
    \/ Release(i)

Next == \E i \in Inv : Invoke(i) \/ Step(i)

Spec == Init /\ [][Next]_vars

(***************************************************************************)
(* One submission sent twice: as the envelope itself, and string-encoded in *)
(* the body field of an envelope.  The two invocations may overlap.         *)
(***************************************************************************)
InvokeDirect(i) ==
    /\ \A j \in Inv : pc[j] = "idle"
    /\ \E sub \in Submissions : Start(i, DirectEnvelope(sub))

InvokeEncoded(j) ==
    \E i \in Inv \ {j}, sub \in Submissions :
        /\ pc[i] # "idle"
        /\ event[i] = DirectEnvelope(sub)
        /\ \A k \in Inv \ {i, j} : pc[k] = "idle"
        /\ Start(j, StringEnvelope(Stringify(sub)))

\* The verification answers of the paired runs: the unparsable text, and the
\* responses that state both token properties.
TwinBodies ==
    { d \in VerificationBodies :
        d.wellFormed => (d.json.valid # "absent" /\ d.json.action # "absent") }

VerifyAnswersTwin(i) ==
    \/ VerifyRequestError(i)
    \/ VerifyResponseAborts(i)
    \/ \E d \in TwinBodies : VerifyResponseEnds(i, d)

StepTwin(i) ==
    \/ SecretAnswers(i)
    \/ CallVerify(i)
    \/ VerifyAnswersTwin(i)
    \/ EmailAnswers(i)
    \/ Release(i)

NextTwin == \E i \in Inv : InvokeDirect(i) \/ InvokeEncoded(i) \/ StepTwin(i)

SpecTwin == Init /\ [][NextTwin]_vars

(***************************************************************************)
(* Invocations that overlap on one instance: each runs from one await to   *)
(* the next, in any interleaving.                                          *)
(***************************************************************************)
\* The payload of the overlapping runs: one submission, as the envelope (the
\* payload has no part in what happens to the cache).
ConcEvents ==
    { DirectEnvelope(sub) :
        sub \in { x \in Submissions : Get(x, "recaptchaToken") = "tokB" } }

\* The verification answers of the overlapping runs: the unparsable text, a
\* response that passes and one that is refused.
ConcBodies ==
    { d \in VerificationBodies :
        d.wellFormed =>
            /\ ~d.json.error
            /\ d.json.valid \in {"true", "false"}
            /\ d.json.action = ExpectedAction
            /\ d.json.hasScore
            /\ d.json.score = 9 }

InvokeConc(i) == \E e \in ConcEvents : Start(i, e)

VerifyAnswersConc(i) ==
    \/ VerifyRequestError(i)
    \/ VerifyResponseAborts(i)
    \/ \E d \in ConcBodies : VerifyResponseEnds(i, d)

StepConc(i) ==
    \/ SecretAnswers(i)
    \/ CallVerify(i)
    \/ VerifyAnswersConc(i)
    \/ EmailAnswers(i)
    \/ Release(i)

NextConc == \E i \in Inv : InvokeConc(i) \/ StepConc(i)

SpecConc == Init /\ [][NextConc]_vars

(***************************************************************************)
(* Properties of one invocation.                                           *)
(***************************************************************************)
ContentFields == {"name", "email", "subject", "message"}

\* The email text holds every content field the processed submission has.
EmailCarriesFields(i) ==
    \A k \in ContentFields \cap DOMAIN body[i].o :
        \E n \in 1..Len(calls[i].emailData) : calls[i].emailData[n] = body[i].o[k]

\* The verification response was parsed and says: valid token, the expected
\* action, a score at or above the threshold.
PassingResponse(i) ==
    /\ calls[i].verifyOutcome = "json"
    /\ calls[i].verifyResponse.valid = "true"
    /\ calls[i].verifyResponse.action = "contact_submit"
    /\ calls[i].verifyResponse.hasScore
    /\ calls[i].verifyResponse.score >= RECAPTCHA_SCORE_THRESHOLD

\* The verification response was parsed and says: valid token, the expected
\* action, a score below the threshold (an absent score counts as 0).
LowScoreResponse(i) ==
    /\ calls[i].verifyOutcome = "json"
    /\ calls[i].verifyResponse.valid = "true"
    /\ calls[i].verifyResponse.action = "contact_submit"
    /\ \/ ~calls[i].verifyResponse.hasScore
       \/ calls[i].verifyResponse.score < RECAPTCHA_SCORE_THRESHOLD

\* C1 as stated: a valid token, the expected action and a score at or above
\* the threshold always end in 200 {result: 'Success'} after exactly one
\* email call that carries the four fields.
C1_AsStated ==
    \A i \in Inv :
        (PassingResponse(i) /\ pc[i] = "done") =>
            /\ response[i] = Success
            /\ calls[i].email = 1
            /\ EmailCarriesFields(i)

\* C1, amended: when the response moreover carries no error field, the email
\* service is called exactly once, with a text carrying the four fields, and
\* the handler returns 200 {result: 'Success'} if that call succeeds and
\* 500 'Email service error' if it fails.
C1_PassingSendsOneEmail ==
    \A i \in Inv :
        (PassingResponse(i) /\ ~calls[i].verifyResponse.error) =>
            /\ calls[i].email = 1
            /\ EmailCarriesFields(i)
            /\ pc[i] \in {"awaitEmail", "done"}
            /\ pc[i] = "done" =>
                  \/ calls[i].emailOutcome = "ok" /\ response[i] = Success
                  \/ calls[i].emailOutcome = "fail" /\ response[i] = EmailServiceError

\* A submission with all four fields passed at exactly the threshold and got 200.
C1_Witness ==
    \E i \in Inv :
        /\ PassingResponse(i)
        /\ ~calls[i].verifyResponse.error
        /\ calls[i].verifyResponse.score = RECAPTCHA_SCORE_THRESHOLD
        /\ ContentFields \subseteq DOMAIN body[i].o
        /\ pc[i] = "done"
        /\ response[i] = Success

\* C2: a parsed verification response with an error field, or a token not
\* valid, or another action, ends in 400 'reCAPTCHA verification failed'
\* with no email call, whatever the score.
C2_RejectedNeverEmails ==
    \A i \in Inv :
        ( /\ calls[i].verifyOutcome = "json"
          /\ \/ calls[i].verifyResponse.error
             \/ calls[i].verifyResponse.valid # "true"
             \/ calls[i].verifyResponse.action # "contact_submit" ) =>
            /\ pc[i] = "done"
            /\ response[i] = VerificationFailed
            /\ calls[i].email = 0

\* A wrong action with a valid token and a score above the threshold was refused.
C2_Witness ==
    \E i \in Inv :
        /\ calls[i].verifyOutcome = "json"
        /\ ~calls[i].verifyResponse.error
        /\ calls[i].verifyResponse.valid = "true"
        /\ calls[i].verifyResponse.action = "other_action"
        /\ calls[i].verifyResponse.hasScore
        /\ calls[i].verifyResponse.score > RECAPTCHA_SCORE_THRESHOLD
        /\ response[i] = VerificationFailed

\* C3 as stated: a valid token and the expected action with a score below the
\* threshold always end in 400 'Submission blocked' with no email call.
C3_AsStated ==
    \A i \in Inv :
        LowScoreResponse(i) =>
            /\ pc[i] = "done"
            /\ response[i] = SubmissionBlocked
            /\ calls[i].email = 0

\* C3, amended: the same, for a response that carries no error field.
C3_LowScoreBlocked ==
    \A i \in Inv :
        (LowScoreResponse(i) /\ ~calls[i].verifyResponse.error) =>
            /\ pc[i] = "done"
            /\ response[i] = SubmissionBlocked
            /\ calls[i].email = 0

\* A valid token with the expected action and no score at all was blocked.
C3_Witness ==
    \E i \in Inv :
        /\ LowScoreResponse(i)
        /\ ~calls[i].verifyResponse.error
        /\ ~calls[i].verifyResponse.hasScore
        /\ response[i] = SubmissionBlocked

\* C4: a failed secret-store call ends in 500 'reCAPTCHA service error', and
\* neither the verification service nor the email service is called.
C4_SecretFailureIs500 ==
    \A i \in Inv :
        calls[i].secretOutcome = "fail" =>
            /\ pc[i] = "done"
            /\ response[i] = RecaptchaServiceError
            /\ calls[i].verify = 0
            /\ calls[i].email = 0

\* The secret store failed for an invocation with a well-formed submission.
C4_Witness ==
    \E i \in Inv :
        /\ calls[i].secretOutcome = "fail"
        /\ calls[i].secret = 1
        /\ body[i].t = "object"
        /\ pc[i] = "done"

\* C5: when verification succeeded with a passing score and the email call
\* fails, the handler returns 500 'Email service error', and the email
\* service was called once only.
C5_EmailFailureIs500 ==
    \A i \in Inv :
        calls[i].emailOutcome = "fail" =>
            /\ recaptchaResult[i].success
            /\ recaptchaResult[i].score >= RECAPTCHA_SCORE_THRESHOLD
            /\ pc[i] = "done"
            /\ response[i] = EmailServiceError
            /\ calls[i].email = 1

\* The email call failed after a passing verification.
C5_Witness ==
    \E i \in Inv :
        /\ PassingResponse(i)
        /\ calls[i].emailOutcome = "fail"
        /\ pc[i] = "done"

(***************************************************************************)
(* Properties of the credential cache and of the calls made.               *)
(***************************************************************************)
\* C6 as stated: over invocations that do not overlap the secret store is
\* called successfully at most once; once a fetch succeeded, an invocation
\* that calls the store is the one whose fetch succeeded; and after a failed
\* fetch the cache holds no credential.
C6_AsStated ==
    /\ fetchCount <= 1
    /\ \A i \in Inv :
          /\ (fetchCount >= 1 /\ calls[i].secret = 1) => calls[i].secretOutcome = "ok"
          /\ calls[i].secretOutcome = "fail" => ~Truthy(cachedApiKey)

\* A response of the shapes of the response contract.
WellShaped(r) ==
    /\ r.contentType = "application/json"
    /\ \/ r.statusCode = 200 /\ r.result = "Success" /\ r.reason = Undefined
       \/ /\ r.statusCode \in {400, 500}
          /\ r.result = "Failed"
          /\ r.reason \notin {Undefined, ""}

\* C8 as stated: no invocation ends in an exception that leaves the handler,
\* and one that has ended returned a response of the contract's shapes.
C8_AsStated ==
    \A i \in Inv :
        /\ pc[i] # "thrown"
        /\ pc[i] = "done" => WellShaped(response[i])
        /\ pc[i] # "done" => response[i] = NoResponse

\* C9: in one invocation each service is called at most once; verification
\* only with the resolved credential; the email only after a parsed response
\* that verifyRecaptcha counts a success with a score not below the
\* threshold; and a call that failed is the invocation's only call of that
\* service, after which no other service is called.
C9_CallsOnceInOrder ==
    \A i \in Inv :
        /\ calls[i].secret <= 1
        /\ calls[i].verify <= 1
        /\ calls[i].email <= 1
        /\ calls[i].verify = 1 =>
              /\ \/ calls[i].secret = 1 /\ calls[i].secretOutcome = "ok"
                 \/ calls[i].secret = 0 /\ Truthy(apiKey[i])
              /\ calls[i].key = apiKey[i]
        /\ calls[i].email = 1 =>
              /\ calls[i].verify = 1
              /\ calls[i].verifyOutcome = "json"
              /\ ~calls[i].verifyResponse.error
              /\ calls[i].verifyResponse.valid = "true"
              /\ calls[i].verifyResponse.action = "contact_submit"
              /\ calls[i].verifyResponse.hasScore
              /\ calls[i].verifyResponse.score >= RECAPTCHA_SCORE_THRESHOLD
        /\ calls[i].secretOutcome = "fail" => calls[i].verify = 0
        /\ calls[i].verifyOutcome \in {"neterr", "badjson", "aborted"} =>
              calls[i].email = 0
        /\ calls[i].emailOutcome = "fail" => pc[i] = "done"

\* An invocation fetched the credential, verified and sent the email, once each.
C9_Witness ==
    \E i \in Inv :
        /\ calls[i].secret = 1
        /\ calls[i].verify = 1
        /\ calls[i].email = 1
        /\ calls[i].emailOutcome = "ok"
        /\ pc[i] = "done"

\* C10 as stated: a verification call that fails in transport, or whose
\* response text does not parse, ends in 500 'reCAPTCHA service error' with
\* no email call and the cache as it was when the call was made.
C10_AsStated ==
    \A i \in Inv :
        calls[i].verifyOutcome \in {"neterr", "badjson", "aborted"} =>
            /\ pc[i] = "done"
            /\ response[i] = RecaptchaServiceError
            /\ calls[i].email = 0
            /\ cachedApiKey = calls[i].key

(***************************************************************************)
(* Properties of the normalisation of the payload.                         *)
(***************************************************************************)
\* Invocation i got sub as its envelope and invocation j got it string-encoded.
Twins(i, j, sub) ==
    /\ pc[i] # "idle"
    /\ pc[j] # "idle"
    /\ event[i] = DirectEnvelope(sub)
    /\ event[j] = StringEnvelope(Stringify(sub))

\* What the collaborators did to an invocation.
Behaviour(i) ==
    <<calls[i].secretOutcome, apiKey[i], calls[i].verifyOutcome,
      calls[i].verifyResponse, calls[i].emailOutcome>>

\* C7: a submission sent as the envelope itself and sent string-encoded in
\* the body field is processed as the same Submission: the same local body,
\* the same token sent to verification, the same email text, and, when the
\* collaborators behaved alike, the same calls and the same response.
C7_EncodingsAgree ==
    \A i, j \in Inv : \A sub \in Submissions :
        Twins(i, j, sub) =>
            /\ pc[j] # "thrown"
            /\ body[i] = ObjVal(sub)
            /\ body[j] = body[i]
            /\ (calls[i].verify = 1 /\ calls[j].verify = 1) =>
                  calls[i].token = calls[j].token
            /\ (calls[i].email = 1 /\ calls[j].email = 1) =>
                  calls[i].emailData = calls[j].emailData
            /\ (pc[i] = "done" /\ pc[j] = "done" /\ Behaviour(i) = Behaviour(j)) =>
                  /\ response[i] = response[j]
                  /\ calls[i] = calls[j]

\* Both encodings of a submission with all its fields were answered 200.
C7_Witness ==
    \E i, j \in Inv : \E sub \in Submissions :
        /\ Twins(i, j, sub)
        /\ ContentFields \subseteq DOMAIN sub
        /\ pc[i] = "done"
        /\ pc[j] = "done"
        /\ Behaviour(i) = Behaviour(j)
        /\ response[i] = Success
        /\ response[j] = Success

(***************************************************************************)
(* Properties of the result of verifyRecaptcha.                            *)
(***************************************************************************)
\* riskAnalysis.score of invocation i's parsed response, 0 when absent.
ResponseScore(i) ==
    IF calls[i].verifyResponse.hasScore THEN calls[i].verifyResponse.score ELSE 0

\* C11 as stated: the result is a success exactly when the token is valid and
\* the action matches, and its score is the response's riskAnalysis.score
\* (0 when absent) in every case.
C11_AsStated ==
    \A i \in Inv :
        recaptchaResult[i].set =>
            /\ recaptchaResult[i].success <=>
                  /\ calls[i].verifyResponse.valid = "true"
                  /\ calls[i].verifyResponse.action = "contact_submit"
            /\ recaptchaResult[i].hasScore
            /\ recaptchaResult[i].score = ResponseScore(i)

\* C11, amended: for a response without an error field the result is a
\* success exactly when the token is valid and the action matches; its score
\* is the response's riskAnalysis.score (0 when absent) when the token is
\* valid, whether or not the action matches, and 0 when the token is not valid.
C11_ResultOfVerification ==
    \A i \in Inv :
        (recaptchaResult[i].set /\ ~calls[i].verifyResponse.error) =>
            /\ recaptchaResult[i].success <=>
                  /\ calls[i].verifyResponse.valid = "true"
                  /\ calls[i].verifyResponse.action = "contact_submit"
            /\ recaptchaResult[i].hasScore
            /\ calls[i].verifyResponse.valid = "true" =>
                  recaptchaResult[i].score = ResponseScore(i)
            /\ calls[i].verifyResponse.valid # "true" => recaptchaResult[i].score = 0

\* A valid token with another action: no success, and the score 0.9 carried.
C11_Witness ==
    \E i \in Inv :
        /\ recaptchaResult[i].set
        /\ ~calls[i].verifyResponse.error
        /\ calls[i].verifyResponse.valid = "true"
        /\ calls[i].verifyResponse.action = "other_action"
        /\ calls[i].verifyResponse.hasScore
        /\ ~recaptchaResult[i].success
        /\ recaptchaResult[i].score = 9

(***************************************************************************)
(* Properties of the credential cache under overlapping invocations.       *)
(***************************************************************************)
\* Invocation i starts in this step.
Starts(i) == pc[i] = "idle" /\ pc'[i] # "idle"

\* C12 as stated: once cachedApiKey holds a credential no step changes it,
\* and an invocation that starts then makes no secret-store call.
C12_AsStated ==
    [][ /\ Truthy(cachedApiKey) => cachedApiKey' = cachedApiKey
        /\ \A i \in Inv : (Truthy(cachedApiKey) /\ Starts(i)) => calls'[i].secret = 0
      ]_vars

\* C12, amended: once cachedApiKey holds a credential, a step changes it only
\* by completing a secret-store call that is already in flight, storing what
\* that call returned, and never sets it to null; an invocation that starts
\* while cachedApiKey holds a credential gets that credential and makes no
\* secret-store call, then or later; a secret-store call is only ever sent by
\* an invocation that starts while the cache holds none.
C12_CacheUnderOverlap ==
    [][ /\ (Truthy(cachedApiKey) /\ cachedApiKey' # cachedApiKey) =>
              /\ cachedApiKey' # Null
              /\ \E i \in Inv :
                    /\ pc[i] = "awaitSecret"
                    /\ calls[i].secret = 1
                    /\ pc'[i] = "awaitKey"
                    /\ apiKey'[i] = cachedApiKey'
        /\ \A i \in Inv :
              /\ (Truthy(cachedApiKey) /\ Starts(i)) =>
                    /\ calls'[i].secret = 0
                    /\ pc'[i] = "awaitKey"
                    /\ apiKey'[i] = cachedApiKey
              /\ calls'[i].secret > calls[i].secret =>
                    /\ Starts(i)
                    /\ ~Truthy(cachedApiKey)
                    /\ calls'[i].secret = 1
      ]_vars

\* Two cold invocations overlapped and fetched different credentials; the
\* cache holds the one stored last, and an invocation that started afterwards
\* runs on it without a secret-store call.
C12_Witness ==
    \E i, j \in Inv :
        /\ i # j
        /\ calls[i].secret = 1
        /\ calls[i].secretOutcome = "ok"
        /\ Truthy(apiKey[i])
        /\ Truthy(cachedApiKey)
        /\ apiKey[i] # cachedApiKey
        /\ calls[j].secret = 0
        /\ pc[j] = "awaitVerify"
        /\ apiKey[j] = cachedApiKey

(***************************************************************************)
(* Termination of an invocation.                                           *)
(***************************************************************************)
\* A step that takes invocation i on from an await.
Progress(i) ==
    \/ SecretAnswers(i)
    \/ CallVerify(i)
    \/ VerifyAnswers(i)
    \/ EmailAnswers(i)

\* C13 as stated: an invocation that awaits getRecaptchaApiKey,
\* verifyRecaptcha or sendEmail is never blocked for good: whatever the
\* outbound calls did so far (a response stream closed before its 'end'
\* included), a step that takes it on towards its response can happen.
C13_AsStated ==
    \A i \in Inv :
        pc[i] \in {"awaitSecret", "awaitKey", "awaitVerify", "stalled", "awaitEmail"} =>
            ENABLED Progress(i)

====
